---------------------------- MODULE Spec2Model ----------------------------
(* A model of email2issues: the App component (form, status flag, issue     *)
(* list), the CommandPreview cards, the geminiService request and the       *)
(* string routines that reshape issues and build the gh issue create lines.   *)
(*                                                                          *)
(* JavaScript strings are TLA+ strings.  An optional value (string | null,  *)
(* string | undefined) is a sequence of length 0 (absent) or 1 (present).   *)
EXTENDS Integers, Sequences, FiniteSets, TLC

(* ------------------------------ bounds ---------------------------------- *)

\* Requests started, keystrokes in the cards' edit fields and copy clicks,
\* together, over one run.
MaxEvents == 2
\* Labels on one raw issue (specification of processParsedIssues).
MaxLabels == 2
\* Length of a title or body (specification of the command strings).
MaxLen == 2

(* --------------------------- String.prototype --------------------------- *)

Undefined == <<>>
Some(s) == <<s>>
\* JavaScript truthiness of an optional string: defined and not "".
Truthy(o) == o # Undefined /\ o[1] # ""

\* The character U+000B, written raw between the quotes (it has no escape).
VerticalTab == ""

\* The white space String.prototype.trim removes, among the characters a
\* string of this module can hold (U+00A0, U+FEFF, U+2028, U+2029 and the
\* class Zs lie outside them).
IsWhiteSpace(c) == c \in {" ", "\t", "\n", "\r", "\f", VerticalTab}

CharAt(s, i) == SubSeq(s, i, i)

\* F(x), with x evaluated once and F applied to its value.  TLC passes an
\* operator's argument unevaluated and evaluates it again at every use; the
\* string operators below take their argument through Apply and walk it by
\* index.
Apply(F(_), x) == CHOOSE r \in {F(v) : v \in {x}} : TRUE

TrimOf(s) ==
  LET kept == {i \in 1..Len(s) : ~IsWhiteSpace(CharAt(s, i))}
  IN IF kept = {} THEN ""
     ELSE SubSeq(s, CHOOSE i \in kept : \A j \in kept : i <= j,
                    CHOOSE i \in kept : \A j \in kept : j <= i)

Trim(s) == Apply(TrimOf, s)

UpperLetters == "ABCDEFGHIJKLMNOPQRSTUVWXYZ"
LowerLetters == "abcdefghijklmnopqrstuvwxyz"

LowerChar(c) ==
  IF \E i \in 1..Len(UpperLetters) : CharAt(UpperLetters, i) = c
  THEN CharAt(LowerLetters, CHOOSE k \in 1..Len(UpperLetters) : CharAt(UpperLetters, k) = c)
  ELSE c

RECURSIVE LowerFrom(_, _)
LowerFrom(s, i) ==
  IF i > Len(s) THEN "" ELSE LowerChar(CharAt(s, i)) \o LowerFrom(s, i + 1)

ToLowerCase(s) == Apply(LAMBDA v : LowerFrom(v, 1), s)

Includes(s, sub) ==
  \E v \in {s} : \E i \in 0..(Len(v) - Len(sub)) : SubSeq(v, i + 1, i + Len(sub)) = sub

RECURSIVE ReplaceFrom(_, _, _, _)
ReplaceFrom(s, i, c, r) ==
  IF i > Len(s) THEN ""
  ELSE (IF CharAt(s, i) = c THEN r ELSE CharAt(s, i)) \o ReplaceFrom(s, i + 1, c, r)

\* s.replace(/c/g, r) for a one-character pattern c.
ReplaceAll(s, c, r) == Apply(LAMBDA v : ReplaceFrom(v, 1, c, r), s)

RECURSIVE JoinFrom(_, _, _)
JoinFrom(strs, i, sep) ==
  IF i > Len(strs) THEN ""
  ELSE IF i = Len(strs) THEN strs[i]
  ELSE strs[i] \o sep \o JoinFrom(strs, i + 1, sep)

Join(strs, sep) == Apply(LAMBDA v : JoinFrom(v, 1, sep), strs)

\* s.split(c) for a one-character separator c: the pieces between the
\* occurrences of c, in order.
SplitOf(s, c) ==
  LET at == {i \in 1..Len(s) : CharAt(s, i) = c}
      cut(k) == IF k = 0 THEN 0
                ELSE IF k > Cardinality(at) THEN Len(s) + 1
                ELSE CHOOSE i \in at : Cardinality({j \in at : j < i}) = k - 1
  IN [k \in 1..(Cardinality(at) + 1) |-> SubSeq(s, cut(k - 1) + 1, cut(k) - 1)]

Split(s, c) == Apply(LAMBDA v : SplitOf(v, c), s)

Map(f(_), xs) == [i \in 1..Len(xs) |-> f(xs[i])]

Range(xs) == {xs[i] : i \in 1..Len(xs)}

(* ------------------------------- types ---------------------------------- *)

IDLE == "IDLE"
ANALYZING == "ANALYZING"
COMPLETE == "COMPLETE"
ERROR == "ERROR"

Raw(t, b, ls, ctx, snd) ==
  [title |-> t, body |-> b, labels |-> ls, originalContext |-> ctx, sender |-> snd]

WithId(raw, id) ==
  [id |-> id, title |-> raw.title, body |-> raw.body, labels |-> raw.labels,
   originalContext |-> raw.originalContext, sender |-> raw.sender]

(* --------------------------- processParsedIssues ------------------------ *)

\* Mutant: the feature/enhancement test comes before the bug test.
TitlePrefixFeatureFirst(labels) ==
  LET lowerLabels == Map(ToLowerCase, labels)
  IN IF \E l \in Range(lowerLabels) :
          Includes(l, "feature") \/ Includes(l, "enhancement")
     THEN "[Feature] "
     ELSE IF \E l \in Range(lowerLabels) : Includes(l, "bug")
          THEN "[Bug] "
          ELSE ""

TitlePrefix(labels) ==
  LET lowerLabels == Map(ToLowerCase, labels)
  IN IF \E l \in Range(lowerLabels) : Includes(l, "bug")
     THEN "[Bug] "
     ELSE IF \E l \in Range(lowerLabels) :
               Includes(l, "feature") \/ Includes(l, "enhancement")
          THEN "[Feature] "
          ELSE ""

\* Mutant: the sender line is added whether or not there is a context.
MergedBodySenderAlways(issue) ==
  LET senderPrefix ==
        IF Truthy(issue.sender) /\ issue.sender[1] # "Unknown"
        THEN "From " \o issue.sender[1] \o ":\n" ELSE ""
  IN IF Truthy(issue.originalContext)
     THEN senderPrefix \o issue.body
            \o "\n\n---\n\n" \o "**Original Context:**\n" \o "\n" \o "> "
            \o issue.originalContext[1]
     ELSE senderPrefix \o issue.body

MergedBody(issue) ==
  IF Truthy(issue.originalContext)
  THEN LET senderPrefix ==
             IF Truthy(issue.sender) /\ issue.sender[1] # "Unknown"
             THEN "From " \o issue.sender[1] \o ":\n" ELSE ""
       IN senderPrefix \o issue.body
            \o "\n\n---\n\n" \o "**Original Context:**\n" \o "\n" \o "> "
            \o issue.originalContext[1]
  ELSE issue.body

\* Mutant: originalContext is not cleared.
ProcessIssueKeepsContext(issue) ==
  [issue EXCEPT !.title = Trim(TitlePrefix(issue.labels) \o issue.title),
                !.body = MergedBody(issue)]

ProcessIssue(issue) ==
  [issue EXCEPT !.title = Trim(TitlePrefix(issue.labels) \o issue.title),
                !.body = MergedBody(issue),
                !.originalContext = Undefined]

processParsedIssues(rawIssues) == Map(ProcessIssue, rawIssues)

(* --------------------------- parseEmailToIssues ------------------------- *)

\* What the generateContent call of one request comes back with.
Rejected == [kind |-> "rejected", items |-> <<>>]
NoText == [kind |-> "noText", items |-> <<>>]
Unparsable == [kind |-> "unparsable", items |-> <<>>]
Array(items) == [kind |-> "array", items |-> items]

Threw == [threw |-> TRUE, value |-> <<>>]
Returned(v) == [threw |-> FALSE, value |-> v]

\* crypto.randomUUID(): the i-th id drawn while request n settles.
randomUUID(n, i) == <<n, i>>

parseEmailToIssues(key, n, resp) ==
  IF ~key THEN Threw
  ELSE IF resp.kind = "rejected" THEN Threw
  ELSE IF resp.kind = "noText" THEN Returned(<<>>)
  ELSE IF resp.kind = "unparsable" THEN Threw
  ELSE Returned([i \in 1..Len(resp.items) |-> WithId(resp.items[i], randomUUID(n, i))])

(* -------------------------------- state --------------------------------- *)

VARIABLES
  apiKey,        \* process.env.API_KEY is set
  emailContent,  \* App: the form, [subject, body]
  issues,        \* App: the issue list
  status,        \* App: ProcessingStatus
  errorMsg,      \* App: string | null
  pending,       \* parseEmailToIssues calls in flight, each with its answer
  requests,      \* requests started so far
  cards,         \* CommandPreview state of each mounted card, by issue id
  typed,         \* keystroke events in the cards so far
  clipboard,     \* navigator.clipboard
  writes,        \* navigator.clipboard.writeText calls in flight
  copies,        \* copy clicks so far
  alerts         \* alert() calls so far

\* One more request, keystroke or copy click is within the bound.
WithinBounds == requests + typed + copies < MaxEvents

\* The clipboard and what handleCopy and copyAllCommands keep besides it.
copyVars == <<clipboard, writes, copies, alerts>>

vars == <<apiKey, emailContent, issues, status, errorMsg, pending, requests,
          cards, typed, copyVars>>

NoCards == [id \in {} |-> 0]

\* useState of a CommandPreview when it mounts.
Mount(issue) ==
  [isEditing |-> FALSE, editedIssue |-> issue, copied |-> FALSE, timers |-> 0]

IdsOf(list) == {list[i].id : i \in 1..Len(list)}

ById(list, id) == list[CHOOSE i \in 1..Len(list) : list[i].id = id]

\* The cards after App renders list: React keeps the state of a card whose
\* key (issue id) is still in the list, mounts the new ones, drops the rest.
Reconcile(list) ==
  [id \in IdsOf(list) |->
     IF id \in DOMAIN cards THEN cards[id] ELSE Mount(ById(list, id))]

(* ------------------------------- inputs --------------------------------- *)

Subjects == {"", "Login"}
Bodies == {"", VerticalTab \o " "}

FixLogin == Raw("Fix login", "Login fails.", <<"bug">>, Some("it fails"), Some("Alice"))
BiggerLogo == Raw("Bigger logo", "Enlarge it.", <<"enhancement">>, Undefined, Some("Unknown"))

UpdateDocs == Raw(" Update docs" \o VerticalTab, "", <<"documentation", "question">>, Some(""), Undefined)

\* What the API may answer in the main specification.
Responses ==
  {Rejected, NoText, Unparsable, Array(<<>>), Array(<<FixLogin>>),
   Array(<<BiggerLogo, FixLogin>>), Array(<<FixLogin, UpdateDocs, BiggerLogo>>)}

SeqsUpTo(S, n) == UNION {[1..k -> S] : k \in 0..n}

TypedTitles == {"Fix the login"}
TypedBodies == {"Edited."}
TypedLabels == {VerticalTab \o "ui ,,bug"}

(* --------------------------------- Init --------------------------------- *)

Init ==
  /\ apiKey \in BOOLEAN
  /\ emailContent = [subject |-> "", body |-> ""]
  /\ issues = <<>>
  /\ status = IDLE
  /\ errorMsg = Undefined
  /\ pending = {}
  /\ requests = 0
  /\ cards = NoCards
  /\ typed = 0
  /\ clipboard = Undefined
  /\ writes = {}
  /\ copies = 0
  /\ alerts = 0

(* ------------------------------ App: form ------------------------------- *)

SetSubject(s) ==
  /\ s # emailContent.subject
  /\ emailContent' = [emailContent EXCEPT !.subject = s]
  /\ UNCHANGED <<apiKey, issues, status, errorMsg, pending, requests, cards,
                 typed, copyVars>>

SetBody(b) ==
  /\ b # emailContent.body
  /\ emailContent' = [emailContent EXCEPT !.body = b]
  /\ UNCHANGED <<apiKey, issues, status, errorMsg, pending, requests, cards,
                 typed, copyVars>>

(* --------------------------- App: handleGenerate ------------------------ *)

\* Mutant: the button is not disabled while a request is being analysed.
GenerateDisabledIgnoresStatus ==
  emailContent.subject = "" /\ emailContent.body = ""

\* The Generate button's disabled attribute.
GenerateDisabled ==
  status = ANALYZING \/ (emailContent.subject = "" /\ emailContent.body = "")

\* Mutant: the early return tests the fields without trimming them.
IsBlankUntrimmed(content) == content.subject = "" /\ content.body = ""

\* handleGenerate's early return.
IsBlank(content) == Trim(content.subject) = "" /\ Trim(content.body) = ""

\* handleGenerate up to its await; resp is what the API will answer.
handleGenerate(resp) ==
  /\ ~GenerateDisabled
  /\ IF IsBlank(emailContent)
     THEN UNCHANGED <<status, errorMsg, issues, cards, pending, requests>>
     ELSE /\ WithinBounds
          /\ status' = ANALYZING
          /\ errorMsg' = Undefined
          /\ issues' = <<>>
          /\ cards' = Reconcile(<<>>)
          /\ requests' = requests + 1
          /\ pending' = pending \cup
               {[n |-> requests + 1, subject |-> emailContent.subject,
                 body |-> emailContent.body, resp |-> resp]}
  /\ UNCHANGED <<apiKey, emailContent, typed, copyVars>>

NoActionable == "No actionable requests found in the email content."
FailedToParse == "Failed to parse email. Please check your API key and try again."

\* Mutant: an empty result is handled like a failure.
AfterAwaitEmptyIsError(result) ==
  IF result.threw \/ Len(result.value) = 0
  THEN [errorMsg |-> Some(FailedToParse), status |-> ERROR, issues |-> issues]
  ELSE [errorMsg |-> errorMsg, status |-> COMPLETE,
        issues |-> processParsedIssues(result.value)]

\* handleGenerate after its await: the state it sets for a settled call.
AfterAwait(result) ==
  IF result.threw
  THEN [errorMsg |-> Some(FailedToParse), status |-> ERROR, issues |-> issues]
  ELSE IF Len(result.value) = 0
       THEN [errorMsg |-> Some(NoActionable), status |-> IDLE, issues |-> issues]
       ELSE [errorMsg |-> errorMsg, status |-> COMPLETE,
             issues |-> processParsedIssues(result.value)]

\* The awaited call of request req settles.
Settle(req) ==
  /\ req \in pending
  /\ \E after \in {AfterAwait(parseEmailToIssues(apiKey, req.n, req.resp))} :
        /\ errorMsg' = after.errorMsg
        /\ status' = after.status
        /\ issues' = after.issues
        /\ cards' = Reconcile(after.issues)
  /\ pending' = pending \ {req}
  /\ UNCHANGED <<apiKey, emailContent, requests, typed, copyVars>>

\* The error panel of App is rendered.
ErrorPanelVisible == status = ERROR

\* Mutant: Try Again sends the request again.
TryAgainRetries ==
  /\ ErrorPanelVisible
  /\ WithinBounds
  /\ status' = ANALYZING
  /\ requests' = requests + 1
  /\ pending' = pending \cup
       {[n |-> requests + 1, subject |-> emailContent.subject,
         body |-> emailContent.body, resp |-> Rejected]}
  /\ UNCHANGED <<apiKey, emailContent, issues, errorMsg, cards, typed, copyVars>>

\* The Try Again button of the error panel.
TryAgain ==
  /\ ErrorPanelVisible
  /\ status' = IDLE
  /\ UNCHANGED <<apiKey, emailContent, issues, errorMsg, pending, requests,
                 cards, typed, copyVars>>

\* The results panel of App (Clear, Copy All, the cards) is rendered.
ResultsVisible == Len(issues) > 0

\* The Clear button.
Clear ==
  /\ ResultsVisible
  /\ issues' = <<>>
  /\ cards' = Reconcile(<<>>)
  /\ UNCHANGED <<apiKey, emailContent, status, errorMsg, pending, requests,
                 typed, copyVars>>

(* ----------------------- App: update and delete ------------------------- *)

handleUpdateIssue(prev, updated) ==
  [i \in 1..Len(prev) |-> IF prev[i].id = updated.id THEN updated ELSE prev[i]]

\* Mutant: the filter keeps the issue with the id and drops the others.
handleDeleteIssueInverted(prev, id) == SelectSeq(prev, LAMBDA i : i.id = id)

\* The list handleDeleteIssue sets.
handleDeleteIssue(prev, id) == SelectSeq(prev, LAMBDA i : i.id # id)

\* The status handleDeleteIssue sets, from the list of the render it closes over.
StatusAfterDelete(rendered, cur) == IF Len(rendered) <= 1 THEN IDLE ELSE cur

(* ---------------------------- CommandPreview ---------------------------- *)

\* The pencil button: setIsEditing(!isEditing).
ToggleEdit(id) ==
  /\ id \in DOMAIN cards
  /\ cards' = [cards EXCEPT ![id].isEditing = ~cards[id].isEditing]
  /\ UNCHANGED <<apiKey, emailContent, issues, status, errorMsg, pending,
                 requests, typed, copyVars>>

\* The labels field's onChange: split(',').map(s => s.trim()).filter(Boolean).
ParseLabels(text) == SelectSeq(Map(Trim, Split(text, ",")), LAMBDA l : l # "")

EditField(id, field, value) ==
  /\ id \in DOMAIN cards
  /\ cards[id].isEditing
  /\ WithinBounds
  /\ typed' = typed + 1
  /\ cards' = [cards EXCEPT ![id].editedIssue[field] = value]
  /\ UNCHANGED <<apiKey, emailContent, issues, status, errorMsg, pending,
                 requests, copyVars>>

EditTitle(id, t) == EditField(id, "title", t)
EditBody(id, b) == EditField(id, "body", b)
EditLabels(id, text) == EditField(id, "labels", ParseLabels(text))

\* The Cancel button: setIsEditing(false); editedIssue is kept.
CancelEdit(id) ==
  /\ id \in DOMAIN cards
  /\ cards[id].isEditing
  /\ cards' = [cards EXCEPT ![id].isEditing = FALSE]
  /\ UNCHANGED <<apiKey, emailContent, issues, status, errorMsg, pending,
                 requests, typed, copyVars>>

\* Save Changes: onUpdate(editedIssue), setIsEditing(false); the effect on
\* [issue] then sets editedIssue to the issue it was given.
saveEdits(id) ==
  /\ id \in DOMAIN cards
  /\ cards[id].isEditing
  /\ issues' = handleUpdateIssue(issues, cards[id].editedIssue)
  /\ cards' = [cards EXCEPT ![id].isEditing = FALSE,
                            ![id].editedIssue = ById(issues', id)]
  /\ UNCHANGED <<apiKey, emailContent, status, errorMsg, pending, requests,
                 typed, copyVars>>

\* The Remove button: onDelete(issue.id).
Remove(id) ==
  /\ id \in DOMAIN cards
  /\ issues' = handleDeleteIssue(issues, id)
  /\ status' = StatusAfterDelete(issues, status)
  /\ cards' = Reconcile(issues')
  /\ UNCHANGED <<apiKey, emailContent, errorMsg, pending, requests, typed,
                 copyVars>>

(* ---------------------------- command strings --------------------------- *)

\* The character U+0060 (a string holding it alone does not lex).
Backtick == SubSeq("`'", 1, 1)

LabelsStr(labels) == Join(Map(LAMBDA l : "--label \"" \o l \o "\"", labels), " ")

Command(safeTitle, safeBody, labelsStr) ==
  "gh issue create --title \"" \o safeTitle \o "\" --body \"" \o safeBody
    \o "\" " \o labelsStr

\* CommandPreview.generateCommand
generateCommand(i) ==
  LET safeTitle == ReplaceAll(i.title, "\"", "\\\"")
      safeBody == ReplaceAll(ReplaceAll(i.body, "\"", "\\\""), Backtick, "\\" \o Backtick)
  IN Command(safeTitle, safeBody, LabelsStr(i.labels))

\* App.escapeForShell
escapeForShell(str) ==
  IF str = "" THEN ""
  ELSE ReplaceAll(ReplaceAll(ReplaceAll(ReplaceAll(str,
         "\\", "\\\\"), "\"", "\\\""), Backtick, "\\" \o Backtick), "$", "\\$")

\* The text App.copyAllCommands writes.
allCommands(list) ==
  Join(Map(LAMBDA issue : Command(escapeForShell(issue.title),
                                  escapeForShell(issue.body),
                                  LabelsStr(issue.labels)), list), "\n")

\* A writeText call: the copy click it comes from, the card that made it
\* (none for Copy All) and the text.
Write(k, card, text) == [k |-> k, card |-> card, text |-> text]

\* The copy button of a card (shown when the card is not being edited):
\* handleCopy up to its await.
handleCopy(id) ==
  /\ id \in DOMAIN cards
  /\ ~cards[id].isEditing
  /\ WithinBounds
  /\ copies' = copies + 1
  /\ writes' = writes \cup
       {Write(copies + 1, Some(id), generateCommand(cards[id].editedIssue))}
  /\ UNCHANGED <<apiKey, emailContent, issues, status, errorMsg, pending,
                 requests, cards, typed, clipboard, alerts>>

\* The Copy All button: copyAllCommands up to its await.
copyAllCommands ==
  /\ ResultsVisible
  /\ WithinBounds
  /\ copies' = copies + 1
  /\ writes' = writes \cup {Write(copies + 1, Undefined, allCommands(issues))}
  /\ UNCHANGED <<apiKey, emailContent, issues, status, errorMsg, pending,
                 requests, cards, typed, clipboard, alerts>>

\* A writeText call resolves and the handler goes on after its await:
\* handleCopy sets copied and starts the 2 s timer (nothing, if its card has
\* unmounted), copyAllCommands calls alert.
writeTextResolves(w) ==
  /\ w \in writes
  /\ writes' = writes \ {w}
  /\ clipboard' = Some(w.text)
  /\ IF w.card = Undefined
     THEN alerts' = alerts + 1 /\ UNCHANGED cards
     ELSE /\ UNCHANGED alerts
          /\ cards' = IF w.card[1] \in DOMAIN cards
                      THEN [cards EXCEPT ![w.card[1]].copied = TRUE,
                                         ![w.card[1]].timers = @ + 1]
                      ELSE cards
  /\ UNCHANGED <<apiKey, emailContent, issues, status, errorMsg, pending,
                 requests, typed, copies>>

\* A writeText call rejects: the handler stops at its await.
writeTextRejects(w) ==
  /\ w \in writes
  /\ writes' = writes \ {w}
  /\ UNCHANGED <<apiKey, emailContent, issues, status, errorMsg, pending,
                 requests, cards, typed, clipboard, copies, alerts>>

\* A 2 s timer of handleCopy fires: setCopied(false).
CopiedTimeout(id) ==
  /\ id \in DOMAIN cards
  /\ cards[id].timers > 0
  /\ cards' = [cards EXCEPT ![id].copied = FALSE, ![id].timers = @ - 1]
  /\ UNCHANGED <<apiKey, emailContent, issues, status, errorMsg, pending,
                 requests, typed, copyVars>>

(* ---------------------------- specifications ---------------------------- *)

Form ==
  \/ \E s \in Subjects : SetSubject(s)
  \/ \E b \in Bodies : SetBody(b)

Generate == \E resp \in Responses : handleGenerate(resp)

SettleAny == \E req \in pending : Settle(req)

WriteSettles == \E w \in writes : writeTextResolves(w) \/ writeTextRejects(w)

Card ==
  \E id \in DOMAIN cards :
    \/ ToggleEdit(id)
    \/ \E t \in TypedTitles : EditTitle(id, t)
    \/ \E b \in TypedBodies : EditBody(id, b)
    \/ \E text \in TypedLabels : EditLabels(id, text)
    \/ CancelEdit(id)
    \/ saveEdits(id)
    \/ Remove(id)
    \/ handleCopy(id)
    \/ CopiedTimeout(id)

Next ==
  \/ Form
  \/ Generate
  \/ SettleAny
  \/ TryAgain
  \/ Clear
  \/ copyAllCommands
  \/ WriteSettles
  \/ Card

Spec == Init /\ [][Next]_vars

(* Specification of processParsedIssues: the form is filled in, and the API  *)
(* answers each request with one raw issue drawn from RawIssues.             *)

RawTitles == {"", "Fix login", " Fix login" \o VerticalTab}
RawBodies == {"", "Login fails."}
LabelPool == {"bug", "Debugger", "enhancement", "New FEATURE", "question"}
RawContexts == {Undefined, Some(""), Some("it fails")}
RawSenders == {Undefined, Some(""), Some("Unknown"), Some("unknown"), Some("Alice")}

\* Every title with every label list, and every body, context and sender with
\* and without a prefix-giving label.
RawIssues ==
  {Raw(t, "Login fails.", ls, Undefined, Undefined) :
     t \in RawTitles, ls \in SeqsUpTo(LabelPool, MaxLabels)}
    \cup
  {Raw("Fix login", b, ls, ctx, snd) :
     b \in RawBodies, ls \in {<<>>, <<"bug">>},
     ctx \in RawContexts, snd \in RawSenders}

InitProcess ==
  /\ apiKey = TRUE
  /\ emailContent = [subject |-> "Login", body |-> "It fails."]
  /\ issues = <<>>
  /\ status = IDLE
  /\ errorMsg = Undefined
  /\ pending = {}
  /\ requests = 0
  /\ cards = NoCards
  /\ typed = 0
  /\ clipboard = Undefined
  /\ writes = {}
  /\ copies = 0
  /\ alerts = 0

GenerateRaw == \E raw \in RawIssues : handleGenerate(Array(<<raw>>))

NextProcess ==
  \/ GenerateRaw
  \/ SettleAny

SpecProcess == InitProcess /\ [][NextProcess]_vars

(* Specification of the command strings: a request is in flight that the API *)
(* answers with one issue whose title and body are drawn from CmdStrings.    *)

CmdChars == {"a", "\"", Backtick, "\\", "$"}

CmdStrings == UNION {{Join(cs, "") : cs \in [1..k -> CmdChars]} : k \in 0..MaxLen}

InitCmd ==
  /\ apiKey = TRUE
  /\ emailContent = [subject |-> "Login", body |-> "It fails."]
  /\ issues = <<>>
  /\ status = ANALYZING
  /\ errorMsg = Undefined
  /\ requests = 1
  /\ \E t \in CmdStrings, b \in CmdStrings :
        pending = {[n |-> 1, subject |-> "Login", body |-> "It fails.",
                    resp |-> Array(<<Raw(t, b, <<"question">>, Undefined, Undefined)>>)]}
  /\ cards = NoCards
  /\ typed = 0
  /\ clipboard = Undefined
  /\ writes = {}
  /\ copies = 0
  /\ alerts = 0

NextCmd ==
  \/ SettleAny
  \/ \E id \in DOMAIN cards : handleCopy(id)
  \/ \E id \in DOMAIN cards : CopiedTimeout(id)
  \/ copyAllCommands
  \/ \E w \in writes : writeTextResolves(w)
  \/ \E w \in writes : writeTextRejects(w)

SpecCmd == InitCmd /\ [][NextCmd]_vars

\* The API call of every request settles.
FairSpec == Spec /\ WF_vars(SettleAny)

(* -------------------------------- claims -------------------------------- *)

\* C1: at most one parseEmailToIssues request is outstanding; while one is,
\* status is ANALYZING; a request is added only by a Generate click made while
\* status is not ANALYZING; and status leaves ANALYZING only by the request
\* settling.
C1_SingleOutstanding ==
  /\ [](Cardinality(pending) <= 1 /\ (pending # {} => status = ANALYZING))
  /\ [][pending' \ pending # {} => (Generate /\ status # ANALYZING)]_vars
  /\ [][(status = ANALYZING /\ status' # ANALYZING) => SettleAny]_vars

\* A second request is in flight, the first one having settled.
C1_Witness == status = ANALYZING /\ Cardinality(pending) = 1 /\ requests = 2

\* C2 (as claimed): when the call fails or returns no data, then once the
\* request settles the error message is set and the error panel is visible.
FailsOrNoData(req) ==
  \/ ~apiKey
  \/ req.resp.kind \in {"rejected", "unparsable", "noText"}
  \/ (req.resp.kind = "array" /\ req.resp.items = <<>>)

C2_ErrorShown ==
  [][\A req \in pending :
       (Settle(req) /\ FailsOrNoData(req))
         => (errorMsg' # Undefined /\ ErrorPanelVisible')]_vars

\* C6: from ERROR a request is started only by a Generate click, and the step
\* from ERROR back to IDLE (Try Again) changes nothing but the status.
C6_NoRetry ==
  /\ [][(status = ERROR /\ pending' # pending) => Generate]_vars
  /\ [][(status = ERROR /\ status' = IDLE)
          => UNCHANGED <<issues, emailContent, errorMsg, pending, requests, cards>>]_vars
  /\ [](status = ERROR => pending = {})

\* Try Again was clicked after a failed request: the failure message is still
\* stored, the status is IDLE and nothing is in flight.
C6_Witness == status = IDLE /\ errorMsg = Some(FailedToParse) /\ pending = {}

\* C8: every started request ends the ANALYZING status (the call settling),
\* in the one outcome its result determines: ERROR with no issues when the
\* call threw, IDLE with no issues when no issue came back, COMPLETE with the
\* processed issues in the order returned otherwise.
CallThrows(req) == ~apiKey \/ req.resp.kind \in {"rejected", "unparsable"}

C8_Outcome ==
  /\ \A n \in 1..MaxEvents :
       (\E r \in pending : r.n = n)
         ~> (status # ANALYZING /\ \A r \in pending : r.n # n)
  /\ [][\A req \in pending :
          Settle(req) =>
            IF CallThrows(req) THEN status' = ERROR /\ issues' = <<>>
            ELSE IF Len(req.resp.items) = 0 THEN status' = IDLE /\ issues' = <<>>
            ELSE /\ status' = COMPLETE
                 /\ Len(issues') = Len(req.resp.items)
                 /\ \A i \in 1..Len(issues') :
                      issues'[i] =
                        ProcessIssue(WithId(req.resp.items[i], randomUUID(req.n, i)))]_vars

\* The second request came back with two issues, shown in the order returned.
C8_Witness ==
  /\ status = COMPLETE /\ pending = {} /\ Len(issues) = 2
  /\ issues[1].id = randomUUID(2, 1) /\ issues[1].title = "[Feature] Bigger logo"
  /\ issues[2].id = randomUUID(2, 2) /\ issues[2].title = "[Bug] Fix login"
  /\ issues[2].body = "From Alice:\nLogin fails.\n\n---\n\n**Original Context:**\n\n> it fails"

\* C9: whenever status is ANALYZING the issue list is empty and the error
\* message is null; and a Generate click with subject and body blank after
\* trimming changes no state and sends no request.
C9_GenerateClears ==
  /\ [](status = ANALYZING => (issues = <<>> /\ errorMsg = Undefined))
  /\ [][(Generate /\ Trim(emailContent.subject) = "" /\ Trim(emailContent.body) = "")
          => UNCHANGED <<status, issues, errorMsg, pending, requests>>]_vars

\* The Generate button is enabled on a whitespace-only form while results and
\* nothing else are shown: the click there returns early.
C9_Witness ==
  /\ ~GenerateDisabled
  /\ Trim(emailContent.subject) = "" /\ Trim(emailContent.body) = ""
  /\ status = COMPLETE /\ Len(issues) > 0

\* C10: saving an edited issue replaces exactly the entry with its id, and
\* removing an issue removes exactly the entry with its id; the other entries
\* and their order stay; ids are pairwise distinct; status changes only when
\* the last issue is removed, to IDLE.
C10_OnlyMatchingIssue ==
  /\ [](\A i, j \in 1..Len(issues) : issues[i].id = issues[j].id => i = j)
  /\ [][\A id \in DOMAIN cards :
          saveEdits(id) =>
            /\ Len(issues') = Len(issues)
            /\ Cardinality({k \in 1..Len(issues) : issues[k].id = id}) = 1
            /\ \A k \in 1..Len(issues) :
                 issues'[k] = IF issues[k].id = id THEN cards[id].editedIssue
                              ELSE issues[k]
            /\ status' = status]_vars
  /\ [][\A id \in DOMAIN cards :
          Remove(id) =>
            /\ \E k \in 1..Len(issues) :
                 /\ issues[k].id = id
                 /\ issues' = SubSeq(issues, 1, k - 1) \o SubSeq(issues, k + 1, Len(issues))
            /\ status' = IF Len(issues) = 1 THEN IDLE ELSE status]_vars

\* Of three issues the second was removed and the third saved with a new
\* title; the first is as it was returned.
C10_Witness ==
  /\ status = COMPLETE /\ Len(issues) = 2
  /\ issues[1].id = randomUUID(1, 1) /\ issues[1].title = "[Bug] Fix login"
  /\ issues[2].id = randomUUID(1, 3) /\ issues[2].title \in TypedTitles

(* --------------------- claims on the command strings -------------------- *)

SpecialChars == {"\"", Backtick, "\\", "$"}

RECURSIVE BackslashedFrom(_, _)
BackslashedFrom(s, i) ==
  IF i > Len(s) THEN ""
  ELSE (IF CharAt(s, i) \in SpecialChars THEN "\\" \o CharAt(s, i) ELSE CharAt(s, i))
         \o BackslashedFrom(s, i + 1)

\* s with a backslash put before each double quote, backtick, backslash and
\* dollar sign of s.
Backslashed(s) == Apply(LAMBDA v : BackslashedFrom(v, 1), s)

ClaimedCommand(i) ==
  Command(Backslashed(i.title), Backslashed(i.body), LabelsStr(i.labels))

\* C3 (as claimed): a command the app copies, from a card or by Copy All,
\* embeds the title and the body with every double quote, backtick, backslash
\* and dollar sign preceded by a backslash.
C3_CommandsEscaped ==
  clipboard # Undefined =>
    clipboard[1] \in {ClaimedCommand(cards[id].editedIssue) : id \in DOMAIN cards}
                       \cup {Join(Map(ClaimedCommand, issues), "\n")}

(* --------------------- claims on processParsedIssues -------------------- *)

\* label contains word, letter case aside.
ContainsCI(label, word) ==
  \E k \in 0..(Len(label) - Len(word)) :
    \A j \in 1..Len(word) : LowerChar(CharAt(label, k + j)) = CharAt(word, j)

ExpectedPrefix(labels) ==
  IF \E i \in 1..Len(labels) : ContainsCI(labels[i], "bug") THEN "[Bug] "
  ELSE IF \E i \in 1..Len(labels) :
            ContainsCI(labels[i], "feature") \/ ContainsCI(labels[i], "enhancement")
       THEN "[Feature] "
       ELSE ""

\* C4: the title of each issue shown is the trimmed concatenation of the
\* prefix and the raw title, the prefix being "[Bug] " if a label contains
\* "bug" (any case), else "[Feature] " if one contains "feature" or
\* "enhancement", else empty; the labels are those of the raw issue.
C4_TitlePrefix ==
  [][\A req \in pending :
       (Settle(req) /\ status' = COMPLETE) =>
         \A i \in 1..Len(req.resp.items) :
           LET raw == req.resp.items[i]
           IN /\ issues'[i].title = Trim(ExpectedPrefix(raw.labels) \o raw.title)
              /\ issues'[i].labels = raw.labels]_vars

\* A bug label listed after an enhancement label, in another case and inside
\* a longer word, still gives the "[Bug] " prefix.
C4_Witness ==
  /\ status = COMPLETE /\ Len(issues) = 1
  /\ issues[1].labels = <<"enhancement", "Debugger">>
  /\ issues[1].title = "[Bug]  Fix login"

\* C5: with a non-empty originalContext the body is the sender line (when the
\* sender is given and is not "Unknown"), the raw body, the separator and the
\* context; without one the body is the raw body, sender or not.
C5_ContextMerged ==
  [][\A req \in pending :
       (Settle(req) /\ status' = COMPLETE) =>
         \A i \in 1..Len(req.resp.items) :
           LET raw == req.resp.items[i]
               hasContext == raw.originalContext # Undefined /\ raw.originalContext[1] # ""
               hasSender == raw.sender # Undefined /\ raw.sender[1] \notin {"", "Unknown"}
           IN issues'[i].body =
                IF hasContext
                THEN (IF hasSender THEN "From " \o raw.sender[1] \o ":\n" ELSE "")
                       \o raw.body \o "\n\n---\n\n**Original Context:**\n\n> "
                       \o raw.originalContext[1]
                ELSE raw.body]_vars

\* An issue with a context and a sender was merged.
C5_Witness ==
  /\ status = COMPLETE /\ Len(issues) = 1
  /\ issues[1].sender = Some("Alice")
  /\ issues[1].body = "From Alice:\nLogin fails.\n\n---\n\n**Original Context:**\n\n> it fails"

\* C7 (as claimed): processParsedIssues applied to its own output leaves each
\* issue unchanged.
C7_Idempotent == status = COMPLETE => processParsedIssues(issues) = issues

\* C7 (amended): processParsedIssues applied to its own output leaves the
\* body, the labels, the id, the sender and the cleared originalContext of
\* each issue unchanged, and puts the title prefix before the title once more:
\* the title is unchanged exactly when no label gives a prefix.
C7_BodyIdempotent ==
  status = COMPLETE =>
    \A i \in 1..Len(issues) :
      LET once == issues[i]
          again == processParsedIssues(issues)[i]
      IN /\ once.originalContext = Undefined
         /\ again = [once EXCEPT !.title = ExpectedPrefix(once.labels) \o once.title]
         /\ (again.title = once.title <=> ExpectedPrefix(once.labels) = "")

\* An issue whose context was merged and whose title was prefixed: a second
\* pass leaves the body and prefixes the title again.
C7_Witness ==
  /\ status = COMPLETE /\ Len(issues) = 1
  /\ issues[1].title = "[Bug] Fix login"
  /\ issues[1].body = "Login fails.\n\n---\n\n**Original Context:**\n\n> it fails"
  /\ processParsedIssues(issues)[1].title = "[Bug] [Bug] Fix login"
  /\ processParsedIssues(issues)[1].body = issues[1].body

=============================================================================
